---- MODULE Spec2Model ----
(***************************************************************************)
(* State-machine model of src/src/App.jsx: the App component (session      *)
(* gate, pipeline board, store handlers) and the AccountForm component     *)
(* (account editor).  React state is modelled by one variable per useState *)
(* or useRef; the identity provider, the document store and the generative *)
(* API are modelled by the variables and inputs the code exchanges with    *)
(* them.                                                                   *)
(***************************************************************************)
EXTENDS Integers, Sequences, FiniteSets, TLC

(***************************************************************************)
(* Bounds of the model.                                                    *)
(***************************************************************************)
\* documents the store allocates per user collection (ids are never reused)
MaxDocs == 2
\* store requests (addDoc, updateDoc, deleteDoc) issued in one behaviour
MaxWrites == 1
\* subscriptions counted per signed-in session (the count saturates here)
MaxSubOpens == 2
\* SpeechRecognition objects one mounted editor creates
MaxSessions == 2

(***************************************************************************)
(* Values.                                                                 *)
(***************************************************************************)
Null == "null"
Users == {"u1"}

\* funnelStages, in the order of the array
funnelStages ==
  << "Business Intel", "New Leads", "Qualified Opportunities", "Needs Analysis",
     "Proposal Sent", "Negotiation", "Closed Won", "Closed Lost", "Nurturing" >>

StageNames == { funnelStages[i] : i \in 1..Len(funnelStages) }

\* the three stages the aggregate metrics exclude
IsActiveStage(s) == s # "Closed Won" /\ s # "Closed Lost" /\ s # "Business Intel"

\* error messages of setError
ErrConfig == "Firebase configuration is missing."
ErrLoad == "Failed to load data."
ErrStage == "Failed to update account stage."
ErrAdd == "Failed to add new account."
ErrUpdate == "Failed to update account."
ErrDelete == "Failed to delete account."
StoreErrors == {ErrLoad, ErrStage, ErrAdd, ErrUpdate, ErrDelete}

VARIABLES
  configOk,         \* the four required firebaseConfig values are all present
  mounted,          \* the App component has run its mount effects
  db, auth,         \* useState: Firestore / Auth instance set (TRUE) or null
  user,             \* useState user: a uid or Null
  accounts,         \* useState accounts: stage name -> sequence of accounts
  isLoading,        \* useState isLoading
  error,            \* useState error: a message or Null
  showModal,        \* useState showModal
  selectedAccount,  \* useState selectedAccount: an account or NoAccount
  dragItem,         \* useRef dragItem.current: the dragged account or NoAccount
  authUser,         \* identity provider: the signed-in uid or Null
  authNotify,       \* identity provider: an auth-state notification is due
  store,            \* document store: uid -> collection (doc id -> document)
  nextId,           \* document store: uid -> the next id addDoc allocates
  sub,              \* the open onSnapshot subscription: uid or Null
  snapPending,      \* the open subscription has a snapshot to deliver
  subOpens,         \* subscriptions opened since the user signed in
  nWrites,          \* store requests issued so far
  lastWrite,        \* the last store request issued, or NoWrite
  authError,        \* AuthComponent useState authError: set or not
  logoutPending,    \* handleLogout is suspended at await signOut(auth)
  form,             \* the mounted AccountForm's state, or NoForm
  save,             \* the handleSave call suspended at its await, or idle
  console           \* kinds of message written to the console

vars == << configOk, mounted, db, auth, user, accounts, isLoading, error,
           showModal, selectedAccount, dragItem, authUser, authNotify, store,
           nextId, sub, snapPending, subOpens, nWrites, lastWrite, authError,
           logoutPending, form, save, console >>

appVars == << user, accounts, isLoading, error, showModal, selectedAccount >>
envVars == << configOk, mounted, db, auth >>
authVars == << authUser, authNotify, authError, logoutPending >>
storeVars == << store, nextId, nWrites, lastWrite >>
subVars == << sub, snapPending, subOpens >>

DocIds == 1..MaxDocs

\* nextFollowUpDate: null, or a Timestamp, modelled by the number of its day
\* in DateStrings
NoDate == 0
\* the values of the date input, in calendar order
DateStrings == << "2025-01-01", "2025-01-02", "2025-01-03" >>
Dates == 1..Len(DateStrings)
\* new Date(8640000000000000), the latest Date, as a day number
FarFuture == 100000000

\* timestamp.toDate().toISOString().split('T')[0] || ''
ToISODate(d) == IF d = NoDate THEN "" ELSE DateStrings[d]
\* s ? Timestamp.fromDate(new Date(s)) : null
FromISODate(s) ==
  IF s = "" THEN NoDate ELSE CHOOSE d \in Dates : DateStrings[d] = s

\* stored accounts as earlier sessions of the app left them: one created and
\* dragged to New Leads, one dragged to Proposal Sent and then saved, one
\* created and dragged to Closed Lost
SeedAccount ==
  [ companyName |-> "Acme", servicesNeeded |-> "AI", stage |-> "New Leads",
    value |-> 1000, monthlyValue |-> 100, dealScore |-> 50, notes |-> << >>,
    lostReason |-> "", nextFollowUpDate |-> NoDate ]

SeedAccount3 ==
  [ companyName |-> "Acme", servicesNeeded |-> "AI", stage |-> "Closed Lost",
    value |-> 100, monthlyValue |-> 100, dealScore |-> 50, notes |-> << >>,
    lostReason |-> "", nextFollowUpDate |-> NoDate ]

SeedAccount2 ==
  [ companyName |-> "Acme", servicesNeeded |-> "AI", stage |-> "Proposal Sent",
    value |-> 100, monthlyValue |-> 100, dealScore |-> 85, notes |-> << >>,
    lostReason |-> "", nextFollowUpDate |-> NoDate ]

\* accounts of one stage that differ in their follow-up date, and the
\* collections of them
DatedAccount(d) == [ SeedAccount EXCEPT !.nextFollowUpDate = d ]
DatedCollections == [ DocIds -> { DatedAccount(d) : d \in {NoDate, 3} } ]
\* what the modelled user enters in the follow-up date input
DateInputs == { "", DateStrings[2] }

\* a collection maps the ids of its documents to the documents
EmptyCollection == << >>
SeedCollection == 1 :> SeedAccount
SeedCollection2 == (1 :> SeedAccount) @@ (2 :> SeedAccount2)
SeedCollection3 == (1 :> SeedAccount) @@ (2 :> SeedAccount3)
SeedCollections ==
  { EmptyCollection, SeedCollection, SeedCollection2, SeedCollection3 }

\* null where the code holds an account object (selectedAccount, dragItem)
NoAccount == [ id |-> 0 ]
\* no store request issued yet
NoWrite == [ op |-> "none" ]

\* useState({}) and setAccounts({}): no stage has accounts
EmptyAccounts == [ s \in StageNames |-> << >> ]

(***************************************************************************)
(* Pure functions of the board.                                            *)
(***************************************************************************)
\* snapshot.docs.map(doc => ({ ...doc.data(), id: doc.id })), in id order
RECURSIVE DocsFrom(_, _)
DocsFrom(coll, d) ==
  IF d > MaxDocs THEN << >>
  ELSE IF d \notin DOMAIN coll THEN DocsFrom(coll, d + 1)
  ELSE << [ id |-> d, doc |-> coll[d] ] >> \o DocsFrom(coll, d + 1)

fetchedAccounts(coll) == DocsFrom(coll, 1)

\* FollowUpKey with the earliest date in place of the latest
FollowUpKey_NullFirst(acc) ==
  IF acc.doc.nextFollowUpDate = NoDate THEN 0 ELSE acc.doc.nextFollowUpDate

\* a.nextFollowUpDate?.toDate() || new Date(8640000000000000)
FollowUpKey(acc) ==
  IF acc.doc.nextFollowUpDate = NoDate THEN FarFuture ELSE acc.doc.nextFollowUpDate

\* Array.prototype.sort with the comparator dateA - dateB: a stable sort
RECURSIVE InsertByDate(_, _)
InsertByDate(acc, sorted) ==
  IF sorted = << >> THEN << acc >>
  ELSE LET last == sorted[Len(sorted)]
           front == SubSeq(sorted, 1, Len(sorted) - 1)
       IN IF FollowUpKey(last) <= FollowUpKey(acc)
          THEN Append(sorted, acc)
          ELSE Append(InsertByDate(acc, front), last)

RECURSIVE SortByDate(_)
SortByDate(seq) ==
  IF seq = << >> THEN << >>
  ELSE InsertByDate(seq[Len(seq)], SortByDate(SubSeq(seq, 1, Len(seq) - 1)))

\* funnelStages.forEach(stage => organizedAccounts[stage.name] =
\*   fetchedAccounts.filter(...).sort(...))
organizedAccounts(fetched) ==
  [ s \in StageNames |->
      LET InStage(acc) == acc.doc.stage = s
      IN SortByDate(SelectSeq(fetched, InStage)) ]

\* Object.values(accounts).flat()
RECURSIVE FlatFrom(_, _)
FlatFrom(accs, i) ==
  IF i > Len(funnelStages) THEN << >>
  ELSE accs[funnelStages[i]] \o FlatFrom(accs, i + 1)

Flat(accs) == FlatFrom(accs, 1)

RECURSIVE SumValue(_)
SumValue(seq) ==
  IF seq = << >> THEN 0 ELSE Head(seq).doc.value + SumValue(Tail(seq))

ActiveOf(accs) ==
  LET Active(acc) == IsActiveStage(acc.doc.stage) IN SelectSeq(Flat(accs), Active)

totalPipelineValue == SumValue(ActiveOf(accounts))
numberOfActiveDeals == Len(ActiveOf(accounts))

\* getPipelineValues(): per-stage totals, 0 for the excluded stages
getPipelineValues ==
  [ s \in StageNames |->
      LET OfStage(acc) == acc.doc.stage = s /\ IsActiveStage(acc.doc.stage)
      IN SumValue(SelectSeq(Flat(accounts), OfStage)) ]

\* the render guards of App, in their order
View ==
  IF isLoading THEN "loading"
  ELSE IF user = Null THEN "auth"
  ELSE IF error # Null THEN "error"
  ELSE "board"

(***************************************************************************)
(* The account editor (AccountForm).                                       *)
(***************************************************************************)
\* no AccountForm is mounted
NoForm == [ open |-> FALSE ]
\* the confirm dialog covers the form while it is shown
FormUsable == form.open /\ ~form.showDeleteConfirm

\* no handleSave call is in flight
IdleSave == [ pc |-> "idle" ]

\* decimal strings of the modelled numbers, as an input element shows them
NumToStr(n) ==
  CASE n = 0 -> "0" [] n = 100 -> "100" [] n = 1000 -> "1000" [] OTHER -> "NaN"

IsNumeric(s) == s \in {"0", "100", "1000"}

NumVal(s) == CASE s = "0" -> 0 [] s = "100" -> 100 [] s = "1000" -> 1000

\* Number(x) || 0: NaN (not numeric), 0 and the empty string all give 0
CoerceNumber(s) == IF IsNumeric(s) /\ NumVal(s) # 0 THEN NumVal(s) ELSE 0

\* account?.value || '': a stored 0 shows as the empty string
FormNumber(n) == IF n = 0 THEN "" ELSE NumToStr(n)

\* useState(formData) of AccountForm for a new account
NewFormData ==
  [ companyName |-> "", servicesNeeded |-> "", value |-> "", monthlyValue |-> "",
    stage |-> "Business Intel", notes |-> << >>, lostReason |-> "",
    dealScore |-> 50, nextFollowUpDate |-> "" ]

\* useState(formData) of AccountForm for an existing account
FormDataOf(account) ==
  [ companyName |-> account.doc.companyName,
    servicesNeeded |-> account.doc.servicesNeeded,
    value |-> FormNumber(account.doc.value),
    monthlyValue |-> FormNumber(account.doc.monthlyValue),
    stage |-> IF account.doc.stage = "" THEN "Business Intel" ELSE account.doc.stage,
    notes |-> account.doc.notes,
    lostReason |-> account.doc.lostReason,
    dealScore |-> IF account.doc.dealScore = 0 THEN 50 ELSE account.doc.dealScore,
    nextFollowUpDate |-> ToISODate(account.doc.nextFollowUpDate) ]

\* null where the code holds a SpeechRecognition object
NoSession == 0
\* no SpeechRecognition object of the form is alive
NoSessions == << >>

\* the state of a freshly mounted AccountForm (reported: the browser shows
\* the validation message of an input that failed constraint validation;
\* scanning, drafting, generating: the handler of that name is suspended at
\* its await of callGeminiAPI; recognitionRef, noteRecognitionRef: the
\* session the ref holds; sessions: the SpeechRecognition objects the form
\* created that have not ended, each with the finalTranscript of its
\* closure; stopShown: the last render found recognitionRef.current set and
\* drew the Stop button in place of the Dictate button)
InitForm(account) ==
  [ open |-> TRUE,
    formData |-> IF account = NoAccount THEN NewFormData ELSE FormDataOf(account),
    newNote |-> "",
    loadingAI |-> FALSE,
    dictationStatus |-> "",
    emailDraft |-> "",
    agenda |-> "",
    scanning |-> FALSE,
    drafting |-> FALSE,
    generating |-> FALSE,
    showDeleteConfirm |-> FALSE,
    isAddingAccount |-> FALSE,
    reported |-> FALSE,
    recognitionRef |-> NoSession,
    noteRecognitionRef |-> NoSession,
    isDictatingNotes |-> FALSE,
    isNoteProcessing |-> FALSE,
    liveTranscript |-> "",
    sessions |-> NoSessions,
    nextSession |-> 1,
    stopShown |-> FALSE ]

\* a render of AccountForm: !recognitionRef.current chooses the button
Rendered(f) ==
  IF f.open THEN [ f EXCEPT !.stopShown = (f.recognitionRef # NoSession) ] ELSE f

\* FormValid without the required attribute of the lostReason textarea
FormValid_NoLostReason(fd) ==
  /\ fd.companyName # ""
  /\ fd.servicesNeeded # ""
  /\ IsNumeric(fd.value)
  /\ IsNumeric(fd.monthlyValue)

\* the browser's constraint validation of the form element on submit: the
\* required inputs, the number inputs, and lostReason when it is rendered
FormValid(fd) ==
  /\ fd.companyName # ""
  /\ fd.servicesNeeded # ""
  /\ IsNumeric(fd.value)
  /\ IsNumeric(fd.monthlyValue)
  /\ (fd.stage = "Closed Lost" => fd.lostReason # "")

\* parseFloat on the modelled score texts
ParseFloat(text) ==
  CASE text = "85" -> 85 [] text = "20" -> 20 [] text = "150" -> 150

\* recalculateDealScore without the fallback for a missing reply
recalculateDealScore_NoFallback(data, scoreText) ==
  IF data.stage = "Closed Won" THEN 100
  ELSE IF data.stage = "Closed Lost" THEN 0
  ELSE IF scoreText # Null THEN ParseFloat(scoreText) ELSE 0

\* recalculateDealScore without its two early returns
recalculateDealScore_NoTerminal(data, scoreText) ==
  IF scoreText # Null THEN ParseFloat(scoreText) ELSE 50

\* recalculateDealScore(data), given the text callGeminiAPI returns (Null:
\* no text)
recalculateDealScore(data, scoreText) ==
  IF data.stage = "Closed Won" THEN 100
  ELSE IF data.stage = "Closed Lost" THEN 0
  ELSE IF scoreText # Null THEN ParseFloat(scoreText) ELSE 50

\* the document fields handleUpdateAccount passes to updateDoc
UpdateFields(updatedAccount) ==
  [ companyName |-> updatedAccount.companyName,
    servicesNeeded |-> updatedAccount.servicesNeeded,
    stage |-> updatedAccount.stage,
    notes |-> updatedAccount.notes,
    lostReason |-> updatedAccount.lostReason,
    dealScore |-> updatedAccount.dealScore,
    value |-> CoerceNumber(updatedAccount.value),
    monthlyValue |-> CoerceNumber(updatedAccount.monthlyValue),
    nextFollowUpDate |-> FromISODate(updatedAccount.nextFollowUpDate) ]

\* AddFields with the spread of newAccount after the defaults
AddFields_SpreadLast(newAccount) ==
  [ companyName |-> newAccount.companyName,
    servicesNeeded |-> newAccount.servicesNeeded,
    lostReason |-> newAccount.lostReason,
    stage |-> newAccount.stage,
    notes |-> newAccount.notes,
    value |-> CoerceNumber(newAccount.value),
    monthlyValue |-> CoerceNumber(newAccount.monthlyValue),
    dealScore |-> newAccount.dealScore,
    nextFollowUpDate |-> FromISODate(newAccount.nextFollowUpDate) ]

\* the document handleAddAccount passes to addDoc
AddFields(newAccount) ==
  [ companyName |-> newAccount.companyName,
    servicesNeeded |-> newAccount.servicesNeeded,
    lostReason |-> newAccount.lostReason,
    stage |-> "Business Intel",
    notes |-> << >>,
    value |-> CoerceNumber(newAccount.value),
    monthlyValue |-> CoerceNumber(newAccount.monthlyValue),
    dealScore |-> 50,
    nextFollowUpDate |-> FromISODate(newAccount.nextFollowUpDate) ]

(***************************************************************************)
(* The snapshot effect.  Its dependency list holds funnelStages, a new     *)
(* array on every render, so every render of App runs the cleanup of the   *)
(* previous subscription and the effect body again.                        *)
(***************************************************************************)
SnapshotEffect(rendered, newUser, newDb) ==
  IF ~rendered THEN
    /\ UNCHANGED << sub, snapPending, subOpens >>
  ELSE IF newUser # Null /\ newDb THEN
    /\ sub' = newUser
    /\ snapPending' = TRUE
    /\ subOpens' = IF subOpens < MaxSubOpens THEN subOpens + 1 ELSE subOpens
  ELSE
    /\ sub' = Null
    /\ snapPending' = FALSE
    /\ subOpens' = 0

\* AccountForm is rendered inside the board when showModal is set; it is
\* mounted with fresh state and loses its state when it is unmounted
FormEffect(f) ==
  form' = IF View' = "board" /\ showModal'
          THEN (IF form.open THEN Rendered(f) ELSE InitForm(selectedAccount'))
          ELSE NoForm

\* a store request: the collection and the document it addresses, the
\* argument of the handler that issued it, the fields it carries, its outcome
Write(op, uid, id, arg, fields, ok) ==
  [ op |-> op, uid |-> uid, id |-> id, arg |-> arg, fields |-> fields, ok |-> ok ]

\* a successful write reaches the open subscription of that collection
Notify(uid, rendered) ==
  IF rendered THEN SnapshotEffect(TRUE, user', db)
  ELSE /\ snapPending' = (snapPending \/ sub = uid)
       /\ UNCHANGED << sub, subOpens >>

Init ==
  /\ configOk \in BOOLEAN
  /\ mounted = FALSE
  /\ db = FALSE
  /\ auth = FALSE
  /\ user = Null
  /\ accounts = EmptyAccounts
  /\ isLoading = TRUE
  /\ error = Null
  /\ showModal = FALSE
  /\ selectedAccount = NoAccount
  /\ dragItem = NoAccount
  /\ authUser \in Users \cup {Null}
  /\ authNotify = FALSE
  /\ store \in [ Users -> SeedCollections ]
  /\ nextId = [ u \in Users |-> Cardinality(DOMAIN store[u]) + 1 ]
  /\ sub = Null
  /\ snapPending = FALSE
  /\ subOpens = 0
  /\ nWrites = 0
  /\ lastWrite = NoWrite
  /\ authError = FALSE
  /\ logoutPending = FALSE
  /\ form = NoForm
  /\ save = IdleSave
  /\ console = {}

(***************************************************************************)
(* Session gate.                                                           *)
(***************************************************************************)
\* the mount effect of App (initialize Firebase, register the auth listener)
Mount ==
  /\ ~mounted
  /\ mounted' = TRUE
  /\ IF configOk
     THEN /\ db' = TRUE
          /\ auth' = TRUE
          /\ authNotify' = TRUE
          /\ UNCHANGED << error, isLoading >>
     ELSE /\ error' = ErrConfig
          /\ isLoading' = FALSE
          /\ UNCHANGED << db, auth, authNotify >>
  /\ SnapshotEffect(TRUE, user, db')
  /\ UNCHANGED << configOk, user, accounts, showModal, selectedAccount, dragItem,
                  authUser, authError, logoutPending, storeVars, form, save,
                  console >>

\* the onAuthStateChanged callback
AuthStateChanged ==
  /\ mounted /\ auth /\ authNotify
  /\ authNotify' = FALSE
  /\ user' = authUser
  /\ isLoading' = FALSE
  /\ UNCHANGED << accounts, error, showModal, selectedAccount >>
  /\ SnapshotEffect(user' # user \/ isLoading, user', db)
  /\ FormEffect(form)
  /\ UNCHANGED << envVars, dragItem, authUser, authError, logoutPending,
                  storeVars, save, console >>

\* AuthComponent.handleSubmit: sign-in or sign-up of uid u; the provider
\* accepts it or rejects it, and a null auth instance makes the call throw
handleSubmit(u, accepted) ==
  /\ mounted /\ View = "auth"
  /\ IF auth /\ accepted
     THEN /\ authUser' = u
          /\ authNotify' = TRUE
          /\ authError' = FALSE
     ELSE /\ authError' = TRUE
          /\ UNCHANGED << authUser, authNotify >>
  /\ UNCHANGED << envVars, appVars, dragItem, logoutPending, storeVars, subVars,
                  form, save, console >>

\* handleLogout up to its await: signOut(auth)
handleLogout ==
  /\ View = "board" /\ ~showModal /\ ~logoutPending
  /\ authUser' = Null
  /\ authNotify' = TRUE
  /\ logoutPending' = TRUE
  /\ UNCHANGED << envVars, appVars, dragItem, authError, storeVars, subVars,
                  form, save, console >>

\* handleLogout after its await: clear the local board state
handleLogoutResume ==
  /\ logoutPending
  /\ logoutPending' = FALSE
  /\ accounts' = EmptyAccounts
  /\ selectedAccount' = NoAccount
  /\ UNCHANGED << user, isLoading, error, showModal >>
  /\ SnapshotEffect(TRUE, user, db)
  /\ FormEffect(form)
  /\ UNCHANGED << envVars, dragItem, authUser, authNotify, authError, storeVars,
                  save, console >>

(***************************************************************************)
(* Pipeline board.                                                         *)
(***************************************************************************)
\* the onSnapshot callback: partition the collection by stage
OnSnapshot ==
  /\ sub # Null /\ snapPending
  /\ accounts' = organizedAccounts(fetchedAccounts(store[sub]))
  /\ UNCHANGED << user, isLoading, error, showModal, selectedAccount >>
  /\ SnapshotEffect(TRUE, user, db)
  /\ FormEffect(form)
  /\ UNCHANGED << envVars, dragItem, authVars, storeVars, save, console >>

\* the onSnapshot error callback: the read failed and the listener ended
OnSnapshotError ==
  /\ sub # Null
  /\ error' = ErrLoad
  /\ UNCHANGED << user, accounts, isLoading, showModal, selectedAccount >>
  /\ IF error' # error
     THEN SnapshotEffect(TRUE, user, db)
     ELSE sub' = Null /\ snapPending' = FALSE /\ UNCHANGED subOpens
  /\ FormEffect(form)
  /\ UNCHANGED << envVars, dragItem, authVars, storeVars, save, console >>

\* handleDragStart: a card of the board starts to be dragged (of the item
\* kept in dragItem.current the code reads the id alone)
handleDragStart(item) ==
  /\ View = "board" /\ ~showModal
  /\ dragItem' = [ id |-> item.id ]
  /\ UNCHANGED << envVars, appVars, authVars, storeVars, subVars, form, save,
                  console >>

\* handleDragEnd moving the card on the board at once (an optimistic update)
handleDragEnd_Optimistic(stageName, ok) ==
  /\ View = "board" /\ ~showModal
  /\ dragItem # NoAccount /\ user # Null
  /\ nWrites < MaxWrites
  /\ LET done == ok /\ dragItem.id \in DOMAIN store[user] IN
     /\ nWrites' = nWrites + 1
     /\ lastWrite' = Write("update", user, dragItem.id, stageName,
                          [ stage |-> stageName ], done)
     /\ UNCHANGED nextId
     /\ IF done
        THEN /\ store' = [ store EXCEPT ![user][dragItem.id].stage = stageName ]
             /\ dragItem' = NoAccount
             /\ accounts' = organizedAccounts(fetchedAccounts(store'[user]))
             /\ UNCHANGED << user, isLoading, error, showModal, selectedAccount >>
             /\ SnapshotEffect(TRUE, user, db)
        ELSE /\ error' = ErrStage
             /\ UNCHANGED << store, dragItem, user, accounts, isLoading,
                             showModal, selectedAccount >>
             /\ SnapshotEffect(error' # error, user, db)
  /\ FormEffect(form)
  /\ UNCHANGED << envVars, authVars, save, console >>

\* handleDragEnd passing the score of a closed deal along with the stage
handleDragEnd_WritesScore(stageName, ok) ==
  /\ View = "board" /\ ~showModal
  /\ dragItem # NoAccount /\ user # Null
  /\ nWrites < MaxWrites
  /\ LET done == ok /\ dragItem.id \in DOMAIN store[user] IN
     /\ nWrites' = nWrites + 1
     /\ lastWrite' = Write("update", user, dragItem.id, stageName,
                          [ stage |-> stageName, dealScore |-> 100 ], done)
     /\ UNCHANGED nextId
     /\ IF done
        THEN /\ store' = [ store EXCEPT ![user][dragItem.id].stage = stageName,
                                     ![user][dragItem.id].dealScore = 100 ]
             /\ dragItem' = NoAccount
             /\ UNCHANGED appVars
             /\ Notify(user, FALSE)
        ELSE /\ error' = ErrStage
             /\ UNCHANGED << store, dragItem, user, accounts, isLoading,
                             showModal, selectedAccount >>
             /\ SnapshotEffect(error' # error, user, db)
  /\ FormEffect(form)
  /\ UNCHANGED << envVars, authVars, save, console >>

\* handleDragEnd: a drop on the column of stageName; updateDoc resolves (ok)
\* or rejects
handleDragEnd(stageName, ok) ==
  /\ View = "board" /\ ~showModal
  /\ dragItem # NoAccount /\ user # Null
  /\ nWrites < MaxWrites
  /\ LET done == ok /\ dragItem.id \in DOMAIN store[user] IN
     /\ nWrites' = nWrites + 1
     /\ lastWrite' = Write("update", user, dragItem.id, stageName,
                          [ stage |-> stageName ], done)
     /\ UNCHANGED nextId
     /\ IF done
        THEN /\ store' = [ store EXCEPT ![user][dragItem.id].stage = stageName ]
             /\ dragItem' = NoAccount
             /\ UNCHANGED appVars
             /\ Notify(user, FALSE)
        ELSE /\ error' = ErrStage
             /\ UNCHANGED << store, dragItem, user, accounts, isLoading,
                             showModal, selectedAccount >>
             /\ SnapshotEffect(error' # error, user, db)
  /\ FormEffect(form)
  /\ UNCHANGED << envVars, authVars, save, console >>

\* the "+ Add New Account" button
OpenAddAccount ==
  /\ View = "board" /\ ~showModal
  /\ selectedAccount' = NoAccount
  /\ showModal' = TRUE
  /\ UNCHANGED << user, accounts, isLoading, error >>
  /\ SnapshotEffect(TRUE, user, db)
  /\ FormEffect(form)
  /\ UNCHANGED << envVars, dragItem, authVars, storeVars, save, console >>

\* a click on the card of an account
OpenAccount(account) ==
  /\ View = "board" /\ ~showModal
  /\ selectedAccount' = account
  /\ showModal' = TRUE
  /\ UNCHANGED << user, accounts, isLoading, error >>
  /\ SnapshotEffect(TRUE, user, db)
  /\ FormEffect(form)
  /\ UNCHANGED << envVars, dragItem, authVars, storeVars, save, console >>

\* the close button of the modal and the Cancel button of the form
CloseModal ==
  /\ FormUsable
  /\ showModal' = FALSE
  /\ UNCHANGED << user, accounts, isLoading, error, selectedAccount >>
  /\ SnapshotEffect(TRUE, user, db)
  /\ FormEffect(form)
  /\ UNCHANGED << envVars, dragItem, authVars, storeVars, save, console >>

(***************************************************************************)
(* Account editor.                                                         *)
(***************************************************************************)
\* what the modelled user types into each input of the form
FieldInputs ==
  [ companyName |-> {"Acme"}, servicesNeeded |-> {"AI"}, value |-> {"100"},
    monthlyValue |-> {"100"}, lostReason |-> {"price"} ]

\* the texts the generative API returns for the scoring prompt (Null: none)
ScoreReplies == {Null, "85"}
\* the same with a number outside the range the prompt asks for
ScoreTexts == ScoreReplies \cup {"150"}

\* the texts the generative API returns for a business card: the JSON object
\* asked for, the same with a stage key added, the same inside a code fence,
\* a sentence of prose (the three backquotes of a fence are written '''),
\* and the object of a card that names a person and no company
PlainCard == "{\"companyName\":\"Acme\"}"
NamelessCard == "{\"contactName\":\"Ann Lee\"}"
StagedCard == "{\"companyName\":\"Acme\",\"stage\":\"Archived\"}"
FencedCard == "'''json\n{\"companyName\":\"Acme\"}\n'''"
ProseCard == "The card reads: Acme"
ScanReplies == { PlainCard, StagedCard }
ScanTexts == ScanReplies \cup { Null, FencedCard, ProseCard, NamelessCard }

\* jsonText.replace(/'''json\n|\n'''/g, '')
StripFence(text) == IF text = FencedCard THEN PlainCard ELSE text

\* JSON.parse: the object a text denotes (Null: the object has no such key);
\* it throws a SyntaxError on a text that is not JSON
IsJSON(text) == text \in { PlainCard, StagedCard, NamelessCard }
JSONParse(text) ==
  CASE text = PlainCard -> [ companyName |-> "Acme", stage |-> Null ]
    [] text = StagedCard -> [ companyName |-> "Acme", stage |-> "Archived" ]
    [] text = NamelessCard -> [ companyName |-> Null, stage |-> Null ]

\* x || '' of a string or missing key
OrEmpty(x) == IF x = Null THEN "" ELSE x

\* the texts the generative API returns for the email and agenda prompts
DraftReplies == { Null, "Subject: Next steps" }
AgendaReplies == { Null, "## Meeting Agenda" }
\* marked.parse
MarkedParse(text) == CASE text = "## Meeting Agenda" -> "<h2>Meeting Agenda</h2>"

EmailFallback == "Failed to generate email draft. Please try again."
AgendaFallback == "Failed to generate meeting agenda. Please try again."

\* the inputs of the form in the order of the markup
InputOrder == << "companyName", "servicesNeeded", "value", "monthlyValue", "lostReason" >>

\* the modelled user fills the form from top to bottom: the inputs above the
\* one typed into are filled
FilledAbove(name) ==
  \A i \in 1..Len(InputOrder) :
    (\E j \in (i + 1)..Len(InputOrder) : InputOrder[j] = name)
      => form.formData[InputOrder[i]] # ""

\* handleChange: the input called name now holds value
handleChange(name, value) ==
  /\ FormUsable
  /\ FilledAbove(name)
  /\ (name = "lostReason" => form.formData.stage = "Closed Lost")
  /\ form' = [ form EXCEPT !.formData[name] = value, !.reported = FALSE ]
  /\ UNCHANGED << envVars, appVars, dragItem, authVars, storeVars, subVars, save,
                  console >>

\* the new-note textarea of an existing account: setNewNote(text)
setNewNote(text) ==
  /\ FormUsable /\ selectedAccount # NoAccount
  /\ form' = [ form EXCEPT !.newNote = text ]
  /\ UNCHANGED << envVars, appVars, dragItem, authVars, storeVars, subVars, save,
                  console >>

\* handleAddNote: past its early return it builds updatedNotes and then
\* evaluates doc(db, ...): db, appId and user are not bound in AccountForm,
\* so the call throws a ReferenceError before updateDoc is reached
handleAddNote ==
  /\ FormUsable
  /\ form.newNote # "" /\ selectedAccount # NoAccount
  /\ console' = console \cup {"ReferenceError: db is not defined"}
  /\ UNCHANGED << envVars, appVars, dragItem, authVars, storeVars, subVars, form,
                  save >>

\* handleScanBusinessCard up to the await of callGeminiAPI
handleScanBusinessCard ==
  /\ FormUsable /\ ~form.loadingAI
  /\ form' = [ form EXCEPT !.loadingAI = TRUE, !.scanning = TRUE,
                           !.dictationStatus = "Scanning card..." ]
  /\ UNCHANGED << envVars, appVars, dragItem, authVars, storeVars, subVars, save,
                  console >>

\* handleScanBusinessCardResume treating a text that is not JSON as an empty
\* object
handleScanBusinessCardResume_EmptyObject(jsonText) ==
  /\ form.open /\ form.scanning
  /\ IF jsonText = Null
     THEN /\ console' = console \cup {"AI extraction failed: No text in response."}
          /\ form' = [ form EXCEPT !.loadingAI = FALSE, !.scanning = FALSE,
                                   !.dictationStatus = "" ]
     ELSE IF ~IsJSON(StripFence(jsonText))
     THEN /\ console' = console \cup {"Uncaught (in promise) SyntaxError"}
          /\ form' = [ form EXCEPT !.formData.companyName = "",
                                   !.scanning = FALSE ]
     ELSE LET parsedData == JSONParse(StripFence(jsonText)) IN
          /\ form' = [ form EXCEPT
               !.formData.companyName = OrEmpty(parsedData.companyName),
               !.formData.stage = IF parsedData.stage # Null THEN parsedData.stage ELSE @,
               !.loadingAI = FALSE,
               !.scanning = FALSE,
               !.dictationStatus = "" ]
          /\ UNCHANGED console
  /\ UNCHANGED << envVars, appVars, dragItem, authVars, storeVars, subVars, save >>

\* handleScanBusinessCard after the await, given the text callGeminiAPI
\* returned: no text is logged; a text that JSON.parse rejects ends the
\* handler with an uncaught SyntaxError, before setLoadingAI(false); a parsed
\* object is spread into formData
handleScanBusinessCardResume(jsonText) ==
  /\ form.open /\ form.scanning
  /\ IF jsonText = Null
     THEN /\ console' = console \cup {"AI extraction failed: No text in response."}
          /\ form' = [ form EXCEPT !.loadingAI = FALSE, !.scanning = FALSE,
                                   !.dictationStatus = "" ]
     ELSE IF ~IsJSON(StripFence(jsonText))
     THEN /\ console' = console \cup {"Uncaught (in promise) SyntaxError"}
          /\ form' = [ form EXCEPT !.scanning = FALSE ]
     ELSE LET parsedData == JSONParse(StripFence(jsonText)) IN
          /\ form' = [ form EXCEPT
               !.formData.companyName = OrEmpty(parsedData.companyName),
               !.formData.stage = IF parsedData.stage # Null THEN parsedData.stage ELSE @,
               !.loadingAI = FALSE,
               !.scanning = FALSE,
               !.dictationStatus = "" ]
          /\ UNCHANGED console
  /\ UNCHANGED << envVars, appVars, dragItem, authVars, storeVars, subVars, save >>

\* handleDraftEmail up to the await of callGeminiAPI
handleDraftEmail ==
  /\ FormUsable /\ ~form.loadingAI
  /\ form' = [ form EXCEPT !.loadingAI = TRUE, !.drafting = TRUE,
                           !.dictationStatus = "Drafting email..." ]
  /\ UNCHANGED << envVars, appVars, dragItem, authVars, storeVars, subVars, save,
                  console >>

\* handleDraftEmailResume without the else branch of its if
handleDraftEmailResume_NoFallback(draft) ==
  /\ form.open /\ form.drafting
  /\ form' = [ form EXCEPT
       !.emailDraft = IF draft # Null THEN draft ELSE @,
       !.loadingAI = FALSE,
       !.drafting = FALSE,
       !.dictationStatus = "" ]
  /\ UNCHANGED << envVars, appVars, dragItem, authVars, storeVars, subVars, save,
                  console >>

\* handleDraftEmail after the await, given the text callGeminiAPI returned
\* (Null: the call failed or the reply held no text)
handleDraftEmailResume(draft) ==
  /\ form.open /\ form.drafting
  /\ form' = [ form EXCEPT
       !.emailDraft = IF draft # Null THEN draft ELSE EmailFallback,
       !.loadingAI = FALSE,
       !.drafting = FALSE,
       !.dictationStatus = "" ]
  /\ UNCHANGED << envVars, appVars, dragItem, authVars, storeVars, subVars, save,
                  console >>

\* handleGenerateAgenda up to the await of callGeminiAPI
handleGenerateAgenda ==
  /\ FormUsable /\ ~form.loadingAI
  /\ form' = [ form EXCEPT !.loadingAI = TRUE, !.generating = TRUE,
                           !.dictationStatus = "Generating agenda..." ]
  /\ UNCHANGED << envVars, appVars, dragItem, authVars, storeVars, subVars, save,
                  console >>

\* handleGenerateAgenda after the await
handleGenerateAgendaResume(generatedAgenda) ==
  /\ form.open /\ form.generating
  /\ form' = [ form EXCEPT
       !.agenda = IF generatedAgenda # Null THEN MarkedParse(generatedAgenda)
                  ELSE AgendaFallback,
       !.loadingAI = FALSE,
       !.generating = FALSE,
       !.dictationStatus = "" ]
  /\ UNCHANGED << envVars, appVars, dragItem, authVars, storeVars, subVars, save,
                  console >>

(***************************************************************************)
(* Voice dictation.  A SpeechRecognition object lives from the handler     *)
(* that creates it to the end of its onend handler; the browser calls its  *)
(* handlers.  The sessions of an editor are kept with the editor: once the *)
(* editor is unmounted the state setters its handlers call change nothing. *)
(***************************************************************************)
\* the phrase the modelled speaker says, and the part of it the browser
\* reports as an interim result
Phrase == "call Acme"
Interim == "call"

\* the texts the generative API returns for the account-fields prompt: every
\* field found, fields reported as not found (null), and a text cut short
FullFields ==
  "{\"companyName\":\"Globex\",\"servicesNeeded\":\"AI\",\"value\":1000,\"monthlyValue\":100}"
NotFoundFields ==
  "{\"companyName\":null,\"servicesNeeded\":\"AI\",\"value\":null,\"monthlyValue\":null}"
TruncatedFields == "{\"companyName\":\"Glo"
FieldsReplies == { Null, FullFields, NotFoundFields, TruncatedFields }

\* JSON.parse of the account-fields replies (value 0: null, which the merge
\* treats as it treats 0)
IsFieldsJSON(text) == text \in { FullFields, NotFoundFields }
ParseFields(text) ==
  CASE text = FullFields ->
         [ companyName |-> "Globex", servicesNeeded |-> "AI", value |-> 1000,
           monthlyValue |-> 100 ]
    [] text = NotFoundFields ->
         [ companyName |-> Null, servicesNeeded |-> "AI", value |-> 0,
           monthlyValue |-> 0 ]

\* the texts the generative API returns for the notes prompt: the four keys,
\* and an object without the summary key (the schema requires none)
FullNote ==
  "{\"summary\":[\"Wants a pilot\"],\"actions\":[],\"concerns\":[],\"sentiment\":\"Positive\"}"
NoSummaryNote == "{\"sentiment\":\"Neutral\"}"
NoteReplies == { Null, FullNote, NoSummaryNote }

\* formattedNote of a reply with its four keys (the emoji and the bullet are
\* written in ASCII)
FormatNote(text) ==
  CASE text = FullNote -> "**Sentiment:** Positive :)\n\n**Summary:**\n* Wants a pilot"

NoteFallback == "Failed to process note."

\* the sessions of form f without session s
WithoutSession(f, s) == [ x \in DOMAIN f.sessions \ {s} |-> f.sessions[x] ]

\* session s of the form belongs to target and is in one of the statuses
InStatus(s, target, statuses) ==
  /\ form.open /\ s \in DOMAIN form.sessions
  /\ form.sessions[s].target = target
  /\ form.sessions[s].status \in statuses

\* handleDictate: the Dictate button (drawn while the last render found the
\* ref empty, enabled while loadingAI is false) creates a session, stores it
\* in recognitionRef and starts it; no state is set, so nothing is rendered
handleDictate ==
  /\ FormUsable /\ ~form.stopShown /\ ~form.loadingAI
  /\ form.nextSession <= MaxSessions
  /\ form' = [ form EXCEPT
       !.recognitionRef = form.nextSession,
       !.nextSession = @ + 1,
       !.sessions = (form.nextSession :>
                       [ target |-> "fields", status |-> "starting", final |-> "" ]) @@ @ ]
  /\ UNCHANGED << envVars, appVars, dragItem, authVars, storeVars, subVars, save,
                  console >>

\* recognition.onstart of an account-fields session
dictateOnStart(s) ==
  /\ InStatus(s, "fields", {"starting"})
  /\ form' = Rendered([ form EXCEPT
       !.loadingAI = TRUE,
       !.dictationStatus = "Listening...",
       !.liveTranscript = "",
       !.sessions[s].final = "",
       !.sessions[s].status = "started" ])
  /\ UNCHANGED << envVars, appVars, dragItem, authVars, storeVars, subVars, save,
                  console >>

\* recognition.onresult of an account-fields session: an interim result, or
\* the final result of the phrase
dictateOnResult(s, isFinal) ==
  /\ InStatus(s, "fields", {"started"})
  /\ isFinal => form.sessions[s].final = ""
  /\ LET finalTranscript ==
           IF isFinal THEN form.sessions[s].final \o Phrase ELSE form.sessions[s].final
         interimTranscript == IF isFinal THEN "" ELSE Interim
     IN form' = Rendered([ form EXCEPT
          !.sessions[s].final = finalTranscript,
          !.liveTranscript = finalTranscript \o interimTranscript ])
  /\ UNCHANGED << envVars, appVars, dragItem, authVars, storeVars, subVars, save,
                  console >>

\* recognition.onerror of an account-fields session; the browser then ends
\* the session
dictateOnError(s) ==
  /\ InStatus(s, "fields", {"starting", "started"})
  /\ form' = Rendered([ form EXCEPT
       !.dictationStatus = "",
       !.loadingAI = FALSE,
       !.sessions[s].status = "ending" ])
  /\ console' = console \cup {"Speech recognition error"}
  /\ UNCHANGED << envVars, appVars, dragItem, authVars, storeVars, subVars, save >>

\* handleStopDictate: the Stop button stops the session recognitionRef holds
handleStopDictate ==
  /\ FormUsable /\ form.stopShown
  /\ form' = IF form.recognitionRef # NoSession
                /\ form.recognitionRef \in DOMAIN form.sessions
             THEN [ form EXCEPT !.sessions[form.recognitionRef].status = "ending" ]
             ELSE form
  /\ UNCHANGED << envVars, appVars, dragItem, authVars, storeVars, subVars, save,
                  console >>

\* recognition.onend of an account-fields session, up to its return or to
\* its await of callGeminiAPI: the session ended after stop(), after an error
\* or by the browser
dictateOnEnd(s) ==
  /\ InStatus(s, "fields", {"started", "ending"})
  /\ IF form.sessions[s].final = ""
     THEN /\ form' = Rendered([ form EXCEPT
               !.recognitionRef = NoSession,
               !.loadingAI = FALSE,
               !.dictationStatus = "",
               !.sessions = WithoutSession(form, s) ])
          /\ console' = console \cup {"Speech recognition ended with no final transcript."}
     ELSE /\ form' = Rendered([ form EXCEPT
               !.recognitionRef = NoSession,
               !.dictationStatus = "Thinking...",
               !.sessions[s].status = "processing" ])
          /\ UNCHANGED console
  /\ UNCHANGED << envVars, appVars, dragItem, authVars, storeVars, subVars, save >>

\* recognition.onend of an account-fields session after the await, given the
\* text callGeminiAPI returned: no text is logged; a text JSON.parse rejects
\* ends the handler with an uncaught SyntaxError, before setLoadingAI(false);
\* a parsed object is spread into formData
dictateOnEndResume(s, jsonText) ==
  /\ InStatus(s, "fields", {"processing"})
  /\ IF jsonText = Null
     THEN /\ console' = console \cup {"AI parsing failed: No text in response."}
          /\ form' = Rendered([ form EXCEPT
               !.loadingAI = FALSE,
               !.dictationStatus = "",
               !.sessions = WithoutSession(form, s) ])
     ELSE IF ~IsFieldsJSON(jsonText)
     THEN /\ console' = console \cup {"Uncaught (in promise) SyntaxError"}
          /\ form' = [ form EXCEPT !.sessions = WithoutSession(form, s) ]
     ELSE LET parsedData == ParseFields(jsonText) IN
          /\ form' = Rendered([ form EXCEPT
               !.formData.companyName = parsedData.companyName,
               !.formData.servicesNeeded = parsedData.servicesNeeded,
               !.formData.value = FormNumber(parsedData.value),
               !.formData.monthlyValue = FormNumber(parsedData.monthlyValue),
               !.loadingAI = FALSE,
               !.dictationStatus = "",
               !.sessions = WithoutSession(form, s) ])
          /\ UNCHANGED console
  /\ UNCHANGED << envVars, appVars, dragItem, authVars, storeVars, subVars, save >>

\* handleNoteDictate: the microphone button of the notes section (drawn
\* while isDictatingNotes is false, enabled while loadingAI is false)
handleNoteDictate ==
  /\ FormUsable /\ selectedAccount # NoAccount
  /\ ~form.isDictatingNotes /\ ~form.loadingAI
  /\ form.nextSession <= MaxSessions
  /\ form' = Rendered([ form EXCEPT
       !.noteRecognitionRef = form.nextSession,
       !.nextSession = @ + 1,
       !.sessions = (form.nextSession :>
                       [ target |-> "notes", status |-> "started", final |-> "" ]) @@ @,
       !.isDictatingNotes = TRUE,
       !.newNote = "",
       !.liveTranscript = "",
       !.dictationStatus = "Listening..." ])
  /\ UNCHANGED << envVars, appVars, dragItem, authVars, storeVars, subVars, save,
                  console >>

\* noteRecognition.onresult
noteOnResult(s, isFinal) ==
  /\ InStatus(s, "notes", {"started"})
  /\ isFinal => form.sessions[s].final = ""
  /\ LET finalTranscript ==
           IF isFinal THEN form.sessions[s].final \o Phrase ELSE form.sessions[s].final
         interimTranscript == IF isFinal THEN "" ELSE Interim
     IN form' = Rendered([ form EXCEPT
          !.sessions[s].final = finalTranscript,
          !.liveTranscript = finalTranscript \o interimTranscript ])
  /\ UNCHANGED << envVars, appVars, dragItem, authVars, storeVars, subVars, save,
                  console >>

\* noteRecognition.onerror; the browser then ends the session
noteOnError(s) ==
  /\ InStatus(s, "notes", {"started"})
  /\ form' = Rendered([ form EXCEPT
       !.isDictatingNotes = FALSE,
       !.isNoteProcessing = FALSE,
       !.dictationStatus = "",
       !.newNote = "",
       !.liveTranscript = "",
       !.sessions[s].status = "ending" ])
  /\ console' = console \cup {"Speech recognition error"}
  /\ UNCHANGED << envVars, appVars, dragItem, authVars, storeVars, subVars, save >>

\* handleStopNoteDictate: the stop button of the notes section
handleStopNoteDictate ==
  /\ FormUsable /\ form.isDictatingNotes
  /\ form' = IF form.noteRecognitionRef # NoSession
                /\ form.noteRecognitionRef \in DOMAIN form.sessions
             THEN [ form EXCEPT !.sessions[form.noteRecognitionRef].status = "ending" ]
             ELSE form
  /\ UNCHANGED << envVars, appVars, dragItem, authVars, storeVars, subVars, save,
                  console >>

\* noteRecognition.onend up to its return or to its await of callGeminiAPI
noteOnEnd(s) ==
  /\ InStatus(s, "notes", {"started", "ending"})
  /\ IF form.sessions[s].final = ""
     THEN /\ form' = Rendered([ form EXCEPT
               !.isDictatingNotes = FALSE,
               !.noteRecognitionRef = NoSession,
               !.newNote = "",
               !.isNoteProcessing = FALSE,
               !.dictationStatus = "",
               !.sessions = WithoutSession(form, s) ])
          /\ console' = console \cup {"Speech recognition ended with no final transcript."}
     ELSE /\ form' = Rendered([ form EXCEPT
               !.isDictatingNotes = FALSE,
               !.noteRecognitionRef = NoSession,
               !.dictationStatus = "Processing...",
               !.sessions[s].status = "processing" ])
          /\ UNCHANGED console
  /\ UNCHANGED << envVars, appVars, dragItem, authVars, storeVars, subVars, save >>

\* noteRecognition.onend after the await: no text gives the fallback note; a
\* parsed object without the summary array ends the handler with an uncaught
\* TypeError at parsedData.summary.length, before setDictationStatus('')
noteOnEndResume(s, jsonText) ==
  /\ InStatus(s, "notes", {"processing"})
  /\ IF jsonText = NoSummaryNote
     THEN /\ console' = console \cup {"Uncaught (in promise) TypeError"}
          /\ form' = [ form EXCEPT !.sessions = WithoutSession(form, s) ]
     ELSE /\ form' = Rendered([ form EXCEPT
               !.newNote = IF jsonText # Null THEN FormatNote(jsonText) ELSE NoteFallback,
               !.isNoteProcessing = FALSE,
               !.dictationStatus = "",
               !.liveTranscript = "",
               !.sessions = WithoutSession(form, s) ])
          /\ UNCHANGED console
  /\ UNCHANGED << envVars, appVars, dragItem, authVars, storeVars, subVars, save >>

\* the submit event of the form whose constraint validation fails: the
\* browser reports the invalid input and does not call handleSave
SubmitRejected ==
  /\ FormUsable /\ ~form.isAddingAccount
  /\ ~FormValid(form.formData)
  /\ form' = [ form EXCEPT !.reported = TRUE ]
  /\ UNCHANGED << envVars, appVars, dragItem, authVars, storeVars, subVars, save,
                  console >>

\* handleSave up to the await of recalculateDealScore
handleSave ==
  /\ FormUsable /\ ~form.isAddingAccount
  /\ FormValid(form.formData)
  /\ save.pc = "idle"
  /\ LET fd == form.formData
         updatedFormData ==
           IF fd.stage = "Business Intel" /\ fd.servicesNeeded = ""
           THEN [ fd EXCEPT !.servicesNeeded = "N/A" ] ELSE fd
     IN save' = [ pc |-> "scoring", data |-> updatedFormData, uid |-> user,
                  account |-> selectedAccount ]
  /\ form' = [ form EXCEPT !.isAddingAccount = TRUE ]
  /\ UNCHANGED << envVars, appVars, dragItem, authVars, storeVars, subVars,
                  console >>

\* handleUpdateAccount(updatedAccount), called by handleSave for the account
\* it edits; updateDoc resolves (ok) or rejects
handleUpdateAccount(updatedAccount, ok) ==
  LET id == save.account.id
      done == ok /\ id \in DOMAIN store[save.uid]
  IN /\ nWrites' = nWrites + 1
     /\ lastWrite' = Write("update", save.uid, id, updatedAccount,
                          UpdateFields(updatedAccount), done)
     /\ UNCHANGED nextId
     /\ IF done
        THEN /\ store' = [ store EXCEPT ![save.uid][id] = UpdateFields(updatedAccount) ]
             /\ showModal' = FALSE
             /\ selectedAccount' = NoAccount
             /\ UNCHANGED error
        ELSE /\ error' = ErrUpdate
             /\ UNCHANGED << store, showModal, selectedAccount >>

\* handleAddAccount(newAccount), called by handleSave for a new account;
\* addDoc resolves (ok) or rejects
handleAddAccount(newAccount, ok) ==
  LET id == nextId[save.uid]
  IN /\ nWrites' = nWrites + 1
     /\ lastWrite' = Write("add", save.uid, id, newAccount, AddFields(newAccount), ok)
     /\ IF ok
        THEN /\ store' = [ store EXCEPT ![save.uid] = (id :> AddFields(newAccount)) @@ @ ]
             /\ nextId' = [ nextId EXCEPT ![save.uid] = @ + 1 ]
             /\ showModal' = FALSE
             /\ selectedAccount' = NoAccount
             /\ UNCHANGED error
        ELSE /\ error' = ErrAdd
             /\ UNCHANGED << store, nextId, showModal, selectedAccount >>

\* handleSave after the await: the score, then onSave, then the finally
handleSaveResume(scoreText, ok) ==
  /\ save.pc = "scoring"
  /\ (scoreText # Null => save.data.stage \notin {"Closed Won", "Closed Lost"})
  /\ nWrites < MaxWrites
  /\ save.account = NoAccount => nextId[save.uid] <= MaxDocs
  /\ LET newDealScore == recalculateDealScore(save.data, scoreText)
         updatedFormData == [ save.data EXCEPT !.dealScore = newDealScore ]
     IN IF save.account # NoAccount
        THEN handleUpdateAccount(updatedFormData, ok)
        ELSE handleAddAccount(updatedFormData, ok)
  /\ save' = IdleSave
  /\ UNCHANGED << user, accounts, isLoading >>
  /\ IF showModal' # showModal \/ selectedAccount' # selectedAccount \/ error' # error
     THEN SnapshotEffect(TRUE, user, db)
     ELSE Notify(save.uid, FALSE)
  /\ FormEffect(IF form.open THEN [ form EXCEPT !.isAddingAccount = FALSE ] ELSE form)
  /\ UNCHANGED << envVars, dragItem, authVars, console >>

\* the Delete button of the form of an existing account
OpenDeleteConfirm ==
  /\ FormUsable /\ selectedAccount # NoAccount
  /\ form' = [ form EXCEPT !.showDeleteConfirm = TRUE ]
  /\ UNCHANGED << envVars, appVars, dragItem, authVars, storeVars, subVars, save,
                  console >>

\* the Cancel button of the confirm dialog
CancelDelete ==
  /\ form.open /\ form.showDeleteConfirm
  /\ form' = [ form EXCEPT !.showDeleteConfirm = FALSE ]
  /\ UNCHANGED << envVars, appVars, dragItem, authVars, storeVars, subVars, save,
                  console >>

\* handleDeleteAccount called by the Delete button of the form itself
handleDeleteAccount_Unconfirmed(ok) ==
  /\ FormUsable /\ selectedAccount # NoAccount
  /\ db /\ user # Null
  /\ nWrites < MaxWrites
  /\ LET accountId == selectedAccount.id IN
     /\ nWrites' = nWrites + 1
     /\ lastWrite' = Write("delete", user, accountId, accountId, << >>, ok)
     /\ UNCHANGED nextId
     /\ IF ok
        THEN /\ store' = [ store EXCEPT ![user] =
                  [ d \in DOMAIN @ \ {accountId} |-> @[d] ] ]
             /\ showModal' = FALSE
             /\ selectedAccount' = NoAccount
             /\ UNCHANGED error
        ELSE /\ error' = ErrDelete
             /\ UNCHANGED << store, showModal, selectedAccount >>
  /\ UNCHANGED << user, accounts, isLoading >>
  /\ SnapshotEffect(TRUE, user, db)
  /\ FormEffect(form)
  /\ UNCHANGED << envVars, dragItem, authVars, save, console >>

\* the Delete button of the confirm dialog: handleDeleteAccount(account.id);
\* deleteDoc resolves (ok) or rejects
handleDeleteAccount(ok) ==
  /\ form.open /\ form.showDeleteConfirm
  /\ db /\ user # Null
  /\ nWrites < MaxWrites
  /\ LET accountId == selectedAccount.id IN
     /\ nWrites' = nWrites + 1
     /\ lastWrite' = Write("delete", user, accountId, accountId, << >>, ok)
     /\ UNCHANGED nextId
     /\ IF ok
        THEN /\ store' = [ store EXCEPT ![user] =
                  [ d \in DOMAIN @ \ {accountId} |-> @[d] ] ]
             /\ showModal' = FALSE
             /\ selectedAccount' = NoAccount
             /\ UNCHANGED error
        ELSE /\ error' = ErrDelete
             /\ UNCHANGED << store, showModal, selectedAccount >>
  /\ UNCHANGED << user, accounts, isLoading >>
  /\ SnapshotEffect(TRUE, user, db)
  /\ FormEffect([ form EXCEPT !.showDeleteConfirm = FALSE ])
  /\ UNCHANGED << envVars, dragItem, authVars, save, console >>

BoardAccounts == { Flat(accounts)[i] : i \in 1..Len(Flat(accounts)) }

\* the columns the modelled user drops on
DropTargets == {"Qualified Opportunities", "Closed Won", "Closed Lost"}

(***************************************************************************)
(* Specifications.  SpecGate is the application from its construction: the *)
(* session gate, the subscription and the board's own handlers.  SpecEditor*)
(* starts where SpecGate arrives once the persisted session of a user has  *)
(* been restored (Mount, then AuthStateChanged), and adds the handlers of  *)
(* the account editor.                                                     *)
(***************************************************************************)
GateNext ==
  \/ Mount
  \/ AuthStateChanged
  \/ \E u \in Users, accepted \in BOOLEAN : handleSubmit(u, accepted)
  \/ handleLogout
  \/ handleLogoutResume
  \/ OnSnapshot
  \/ OnSnapshotError
  \/ \E item \in BoardAccounts : handleDragStart(item)
  \/ \E stageName \in DropTargets, ok \in BOOLEAN : handleDragEnd(stageName, ok)
  \/ OpenAddAccount
  \/ \E account \in BoardAccounts : OpenAccount(account)
  \/ CloseModal

SpecGate == Init /\ [][GateNext]_vars

\* the state SpecGate reaches by Mount and AuthStateChanged for a user whose
\* session the identity provider restored
InitEditor ==
  /\ configOk = TRUE
  /\ mounted = TRUE
  /\ db = TRUE
  /\ auth = TRUE
  /\ user \in Users
  /\ accounts = EmptyAccounts
  /\ isLoading = FALSE
  /\ error = Null
  /\ showModal = FALSE
  /\ selectedAccount = NoAccount
  /\ dragItem = NoAccount
  /\ authUser = user
  /\ authNotify = FALSE
  /\ store \in [ Users -> SeedCollections ]
  /\ nextId = [ u \in Users |-> Cardinality(DOMAIN store[u]) + 1 ]
  /\ sub = user
  /\ snapPending = TRUE
  /\ subOpens = 1
  /\ nWrites = 0
  /\ lastWrite = NoWrite
  /\ authError = FALSE
  /\ logoutPending = FALSE
  /\ form = NoForm
  /\ save = IdleSave
  /\ console = {}

EditorNext ==
  \/ OnSnapshot
  \/ \E item \in BoardAccounts : handleDragStart(item)
  \/ \E stageName \in DropTargets, ok \in BOOLEAN : handleDragEnd(stageName, ok)
  \/ OpenAddAccount
  \/ \E account \in BoardAccounts : OpenAccount(account)
  \/ CloseModal
  \/ \E name \in DOMAIN FieldInputs : \E value \in FieldInputs[name] :
       handleChange(name, value)
  \/ SubmitRejected
  \/ handleSave
  \/ \E scoreText \in ScoreReplies, ok \in BOOLEAN : handleSaveResume(scoreText, ok)

SpecEditor == InitEditor /\ [][EditorNext]_vars

\* the editor with the business-card scan, opened from a board whose cards
\* are not dragged
ScanNext ==
  \/ OnSnapshot
  \/ OpenAddAccount
  \/ \E account \in BoardAccounts : OpenAccount(account)
  \/ CloseModal
  \/ \E name \in DOMAIN FieldInputs : \E value \in FieldInputs[name] :
       handleChange(name, value)
  \/ handleScanBusinessCard
  \/ \E jsonText \in ScanReplies : handleScanBusinessCardResume(jsonText)
  \/ SubmitRejected
  \/ handleSave
  \/ \E scoreText \in ScoreReplies, ok \in BOOLEAN : handleSaveResume(scoreText, ok)

SpecScan == InitEditor /\ [][ScanNext]_vars

\* the editor with its delete dialog in place of the save
DeleteNext ==
  \/ OnSnapshot
  \/ \E item \in BoardAccounts : handleDragStart(item)
  \/ \E stageName \in DropTargets, ok \in BOOLEAN : handleDragEnd(stageName, ok)
  \/ OpenAddAccount
  \/ \E account \in BoardAccounts : OpenAccount(account)
  \/ CloseModal
  \/ \E name \in DOMAIN FieldInputs : \E value \in FieldInputs[name] :
       handleChange(name, value)
  \/ OpenDeleteConfirm
  \/ CancelDelete
  \/ \E ok \in BOOLEAN : handleDeleteAccount(ok)

SpecDelete == InitEditor /\ [][DeleteNext]_vars

\* the editor with its notes section
NotesNext ==
  \/ OnSnapshot
  \/ \E item \in BoardAccounts : handleDragStart(item)
  \/ \E stageName \in DropTargets, ok \in BOOLEAN : handleDragEnd(stageName, ok)
  \/ OpenAddAccount
  \/ \E account \in BoardAccounts : OpenAccount(account)
  \/ CloseModal
  \/ \E name \in DOMAIN FieldInputs : \E value \in FieldInputs[name] :
       handleChange(name, value)
  \/ \E text \in {"", "called"} : setNewNote(text)
  \/ handleAddNote
  \/ SubmitRejected
  \/ handleSave
  \/ \E scoreText \in ScoreReplies, ok \in BOOLEAN : handleSaveResume(scoreText, ok)

SpecNotes == InitEditor /\ [][NotesNext]_vars

\* the handlers that issue store requests (drop, save, delete) with the
\* subscription; the modelled user types into the form of a new account only
WritesNext ==
  \/ OnSnapshot
  \/ \E item \in BoardAccounts : handleDragStart(item)
  \/ \E stageName \in DropTargets, ok \in BOOLEAN : handleDragEnd(stageName, ok)
  \/ OpenAddAccount
  \/ \E account \in BoardAccounts : OpenAccount(account)
  \/ CloseModal
  \/ \E name \in DOMAIN FieldInputs : \E value \in FieldInputs[name] :
       selectedAccount = NoAccount /\ handleChange(name, value)
  \/ handleSave
  \/ \E scoreText \in ScoreReplies, ok \in BOOLEAN : handleSaveResume(scoreText, ok)
  \/ OpenDeleteConfirm
  \/ CancelDelete
  \/ \E ok \in BOOLEAN : handleDeleteAccount(ok)

SpecWrites == InitEditor /\ [][WritesNext]_vars

\* the editor with its three assistant features: the business-card scan with
\* every kind of reply, the email draft and the meeting agenda
AssistNext ==
  \/ OnSnapshot
  \/ OpenAddAccount
  \/ \E account \in BoardAccounts : OpenAccount(account)
  \/ CloseModal
  \/ handleScanBusinessCard
  \/ \E jsonText \in ScanTexts : handleScanBusinessCardResume(jsonText)
  \/ handleDraftEmail
  \/ \E draft \in DraftReplies : handleDraftEmailResume(draft)
  \/ handleGenerateAgenda
  \/ \E generatedAgenda \in AgendaReplies : handleGenerateAgendaResume(generatedAgenda)

SpecAssist == InitEditor /\ [][AssistNext]_vars

\* the board of a signed-in user whose accounts carry follow-up dates, and
\* the editor changing them (no key of the generative API is configured)
InitBoard ==
  /\ configOk = TRUE
  /\ mounted = TRUE
  /\ db = TRUE
  /\ auth = TRUE
  /\ user \in Users
  /\ accounts = EmptyAccounts
  /\ isLoading = FALSE
  /\ error = Null
  /\ showModal = FALSE
  /\ selectedAccount = NoAccount
  /\ dragItem = NoAccount
  /\ authUser = user
  /\ authNotify = FALSE
  /\ store \in [ Users -> DatedCollections ]
  /\ nextId = [ u \in Users |-> Cardinality(DOMAIN store[u]) + 1 ]
  /\ sub = user
  /\ snapPending = TRUE
  /\ subOpens = 1
  /\ nWrites = 0
  /\ lastWrite = NoWrite
  /\ authError = FALSE
  /\ logoutPending = FALSE
  /\ form = NoForm
  /\ save = IdleSave
  /\ console = {}

BoardNext ==
  \/ OnSnapshot
  \/ \E account \in BoardAccounts : OpenAccount(account)
  \/ CloseModal
  \/ \E value \in DateInputs : handleChange("nextFollowUpDate", value)
  \/ handleSave
  \/ \E ok \in BOOLEAN : handleSaveResume(Null, ok)

SpecBoard == InitBoard /\ [][BoardNext]_vars

\* saves of stored accounts with every modelled reply of the scoring call
ScoreNext ==
  \/ OnSnapshot
  \/ \E account \in BoardAccounts : OpenAccount(account)
  \/ CloseModal
  \/ SubmitRejected
  \/ \E value \in FieldInputs.lostReason : handleChange("lostReason", value)
  \/ handleSave
  \/ \E scoreText \in ScoreTexts, ok \in BOOLEAN : handleSaveResume(scoreText, ok)

SpecScore == InitEditor /\ [][ScoreNext]_vars

\* the editor with its two dictation targets and the browser's speech
\* recognition events
DictateNext ==
  \/ OnSnapshot
  \/ \E account \in BoardAccounts : account.id = 1 /\ OpenAccount(account)
  \/ CloseModal
  \/ handleDictate
  \/ \E s \in 1..MaxSessions : dictateOnStart(s)
  \/ \E s \in 1..MaxSessions, isFinal \in BOOLEAN : dictateOnResult(s, isFinal)
  \/ \E s \in 1..MaxSessions : dictateOnError(s)
  \/ handleStopDictate
  \/ \E s \in 1..MaxSessions : dictateOnEnd(s)
  \/ \E s \in 1..MaxSessions, jsonText \in FieldsReplies : dictateOnEndResume(s, jsonText)
  \/ handleNoteDictate
  \/ \E s \in 1..MaxSessions, isFinal \in BOOLEAN : noteOnResult(s, isFinal)
  \/ \E s \in 1..MaxSessions : noteOnError(s)
  \/ handleStopNoteDictate
  \/ \E s \in 1..MaxSessions : noteOnEnd(s)
  \/ \E s \in 1..MaxSessions, jsonText \in NoteReplies : noteOnEndResume(s, jsonText)

SpecDictate == InitEditor /\ [][DictateNext]_vars

\* the session gate with two users of the identity provider, each with a
\* collection of their own, and the provider ending a session by itself (the
\* user signed out in another tab, the account was disabled)
SessionUsers == Users \cup { "u2" }

OtherAccount ==
  [ companyName |-> "Globex", servicesNeeded |-> "CRM", stage |-> "Negotiation",
    value |-> 1000, monthlyValue |-> 100, dealScore |-> 50, notes |-> << >>,
    lostReason |-> "", nextFollowUpDate |-> NoDate ]

SessionStore == [ u \in SessionUsers |->
                    IF u \in Users THEN SeedCollection2 ELSE 1 :> OtherAccount ]

InitSession ==
  /\ configOk = TRUE
  /\ mounted = FALSE
  /\ db = FALSE
  /\ auth = FALSE
  /\ user = Null
  /\ accounts = EmptyAccounts
  /\ isLoading = TRUE
  /\ error = Null
  /\ showModal = FALSE
  /\ selectedAccount = NoAccount
  /\ dragItem = NoAccount
  /\ authUser \in SessionUsers \cup {Null}
  /\ authNotify = FALSE
  /\ store = SessionStore
  /\ nextId = [ u \in SessionUsers |-> Cardinality(DOMAIN store[u]) + 1 ]
  /\ sub = Null
  /\ snapPending = FALSE
  /\ subOpens = 0
  /\ nWrites = 0
  /\ lastWrite = NoWrite
  /\ authError = FALSE
  /\ logoutPending = FALSE
  /\ form = NoForm
  /\ save = IdleSave
  /\ console = {}

\* the identity provider ends the session without handleLogout; the
\* onAuthStateChanged listener is then notified
SessionEnded ==
  /\ mounted /\ auth
  /\ authUser # Null /\ ~logoutPending
  /\ authUser' = Null
  /\ authNotify' = TRUE
  /\ UNCHANGED << envVars, appVars, dragItem, authError, logoutPending, storeVars,
                  subVars, form, save, console >>

\* (a handleLogout suspended at its await has gone on by the time the next
\* user has typed credentials and submitted them)
SessionNext ==
  \/ Mount
  \/ AuthStateChanged
  \/ \E u \in SessionUsers, accepted \in BOOLEAN :
       ~logoutPending /\ handleSubmit(u, accepted)
  \/ handleLogout
  \/ handleLogoutResume
  \/ SessionEnded
  \/ OnSnapshot
  \/ OnSnapshotError

SpecSession == InitSession /\ [][SessionNext]_vars

(***************************************************************************)
(* Properties.                                                             *)
(***************************************************************************)

\* C1: when a required identity-provider configuration value is absent at
\* start-up, the user sees the configuration error message and neither the
\* credential form nor the board.
C1_ConfigErrorShown ==
  (mounted /\ ~configOk) => (error = ErrConfig /\ View = "error")

\* C2: after a failed store operation a signed-in user still has the board
\* (the failure is surfaced without the error state replacing the board).
C2_BoardSurvivesStoreFailure ==
  (user # Null /\ ~isLoading /\ error \in StoreErrors) => View = "board"

\* C3: a note append on an existing account with a non-empty new note issues
\* one store update whose only field is notes, leaves the stored notes equal
\* to the previous notes followed by the new note, and clears the input.
C3_NoteAppendPersists ==
  [][ handleAddNote =>
        /\ nWrites' = nWrites + 1
        /\ lastWrite'.op = "update"
        /\ DOMAIN lastWrite'.fields = {"notes"}
        /\ lastWrite'.fields.notes = Append(form.formData.notes, form.newNote)
        /\ store'[user][selectedAccount.id].notes =
             Append(form.formData.notes, form.newNote)
        /\ form'.newNote = "" ]_vars

TerminalScoreOK(doc) ==
  /\ doc.stage = "Closed Won" => doc.dealScore = 100
  /\ doc.stage = "Closed Lost" => doc.dealScore = 0

C5_SnapshotKeepsSubscription ==
  [][ OnSnapshot => (subOpens' = subOpens /\ ~snapPending') ]_vars

\* the places of account acc in the partitions accs
Occurrences(accs, acc) ==
  { p \in StageNames \X (1..MaxDocs) :
      p[2] <= Len(accs[p[1]]) /\ accs[p[1]][p[2]] = acc }

\* C6: partitioning the accounts of a snapshot by stage and merging the
\* partitions back yields exactly the snapshot's accounts: each appears in
\* exactly one partition, none is lost, none is duplicated.
C6_PartitionLossless ==
  [][ OnSnapshot =>
        LET fetched == fetchedAccounts(store[sub]) IN
        /\ \A i \in 1..Len(fetched) :
             Cardinality(Occurrences(accounts', fetched[i])) = 1
        /\ Len(Flat(accounts')) = Len(fetched) ]_vars

\* the stages of the chart: funnelStages without the three excluded stages
RECURSIVE ChartSum(_, _)
ChartSum(values, i) ==
  IF i > Len(funnelStages) THEN 0
  ELSE (IF IsActiveStage(funnelStages[i]) THEN values[funnelStages[i]] ELSE 0)
         + ChartSum(values, i + 1)

\* C7: the total pipeline value shown is the sum of value over exactly the
\* accounts of the latest snapshot whose stage is none of Closed Won, Closed
\* Lost and Business Intel, the active-deal count is their number, and the
\* chart's per-stage values sum to the total.
C7_PipelineTotals ==
  [][ OnSnapshot =>
        LET fetched == fetchedAccounts(store[sub])
            Active(acc) == IsActiveStage(acc.doc.stage)
            active == SelectSeq(fetched, Active)
        IN /\ totalPipelineValue' = SumValue(active)
           /\ numberOfActiveDeals' = Len(active)
           /\ ChartSum(getPipelineValues', 1) = totalPipelineValue' ]_vars

\* C8: a form save of an account whose stage is Closed Lost and whose
\* lostReason is empty never gets past validation: no handleSave call holds
\* such data and no store create or update carries it.
C8_LostReasonRequired ==
  /\ save.pc # "idle"
       => ~(save.data.stage = "Closed Lost" /\ save.data.lostReason = "")
  /\ (lastWrite.op \in {"add", "update"} /\ "lostReason" \in DOMAIN lastWrite.fields)
       => ~(lastWrite.arg.stage = "Closed Lost" /\ lastWrite.arg.lostReason = "")

\* C8 witness: a submit of the form of a Closed Lost account, with every
\* other required input filled and lostReason empty, was rejected, and
\* nothing has been written
C8_Witness ==
  /\ form.open /\ form.reported
  /\ form.formData.stage = "Closed Lost" /\ form.formData.lostReason = ""
  /\ form.formData.companyName # "" /\ form.formData.servicesNeeded # ""
  /\ IsNumeric(form.formData.value) /\ IsNumeric(form.formData.monthlyValue)
  /\ save.pc = "idle" /\ nWrites = 0

\* C9: a create stores stage Business Intel, dealScore 50 and no notes, with
\* value and monthlyValue as numbers (0 when not numeric), whatever the form
\* data carried and whatever the AI score call returned.
C9_CreateDefaults ==
  lastWrite.op = "add"
    => /\ lastWrite.fields.stage = "Business Intel"
       /\ lastWrite.fields.dealScore = 50
       /\ lastWrite.fields.notes = << >>
       /\ lastWrite.fields.value \in Int /\ lastWrite.fields.monthlyValue \in Int
       /\ lastWrite.arg.value = "1000" => lastWrite.fields.value = 1000
       /\ lastWrite.arg.value = "100" => lastWrite.fields.value = 100
       /\ lastWrite.arg.monthlyValue = "100" => lastWrite.fields.monthlyValue = 100
       /\ lastWrite.arg.value \notin {"100", "1000"} => lastWrite.fields.value = 0
       /\ lastWrite.arg.monthlyValue \notin {"100", "1000"}
            => lastWrite.fields.monthlyValue = 0
       /\ lastWrite.ok => store[lastWrite.uid][lastWrite.id] = lastWrite.fields

\* C9 witness: a create whose form carried another stage and whose score call
\* returned 85 has stored the defaults
C9_Witness ==
  /\ lastWrite.op = "add" /\ lastWrite.ok
  /\ lastWrite.arg.stage = "Archived" /\ lastWrite.arg.dealScore = 85
  /\ lastWrite.arg.value = "100"
  /\ store[lastWrite.uid][lastWrite.id].stage = "Business Intel"
  /\ store[lastWrite.uid][lastWrite.id].dealScore = 50
  /\ store[lastWrite.uid][lastWrite.id].value = 100

\* C10: a drop of the dragged account on a column issues exactly one store
\* update, addressed to that account's document, whose only field is stage =
\* the column's stage; no other field and no other document changes.
C10_DropWritesStageOnly ==
  [][ \A stageName \in DropTargets, ok \in BOOLEAN :
        handleDragEnd(stageName, ok) =>
          /\ nWrites' = nWrites + 1
          /\ lastWrite'.op = "update"
          /\ lastWrite'.uid = user /\ lastWrite'.id = dragItem.id
          /\ lastWrite'.fields = [ stage |-> stageName ]
          /\ \A u \in Users : DOMAIN store'[u] = DOMAIN store[u]
          /\ \A u \in Users : \A d \in DOMAIN store[u] :
               IF u = user /\ d = dragItem.id /\ lastWrite'.ok
               THEN /\ store'[u][d].stage = stageName
                    /\ \A f \in DOMAIN store[u][d] \ {"stage"} :
                         store'[u][d][f] = store[u][d][f]
               ELSE store'[u][d] = store[u][d] ]_vars

\* C10 witness: a drop has updated the stage of the dragged account
C10_Witness ==
  /\ lastWrite.op = "update" /\ lastWrite.ok
  /\ DOMAIN lastWrite.fields = {"stage"}
  /\ store[lastWrite.uid][lastWrite.id].stage = lastWrite.fields.stage
  /\ store[lastWrite.uid][lastWrite.id].stage # SeedAccount.stage
  /\ dragItem = NoAccount

\* C11: the partitions the board holds change only when a snapshot is
\* delivered or the sign-out clears them; no store request (drag-drop, save,
\* delete), resolved or rejected, changes them, and a rejected request leaves
\* the store unchanged.
C11_WritesLeaveBoardView ==
  [][ /\ accounts' # accounts =>
           \/ /\ sub # Null /\ snapPending
              /\ accounts' = organizedAccounts(fetchedAccounts(store[sub]))
           \/ logoutPending /\ accounts' = EmptyAccounts
      /\ nWrites' # nWrites => accounts' = accounts
      /\ (nWrites' # nWrites /\ ~lastWrite'.ok) => store' = store ]_vars

\* C11 witness: a drop has moved a stored account to Closed Won and the board
\* still holds it in its previous partition, the snapshot not yet delivered
C11_Witness ==
  /\ lastWrite.op = "update" /\ lastWrite.ok
  /\ lastWrite.fields = [ stage |-> "Closed Won" ]
  /\ store[lastWrite.uid][lastWrite.id].stage = "Closed Won"
  /\ accounts["Closed Won"] = << >>
  /\ \E i \in 1..Len(accounts["New Leads"]) :
       accounts["New Leads"][i].id = lastWrite.id
  /\ snapPending

\* C12: a form save issues a create for a new account and an update of the
\* edited account's document otherwise; when the write resolves the editor is
\* closed; when it rejects an error is set, the editor the user had open
\* stays open with its data, and the store is unchanged.
C12_SaveOutcome ==
  [][ (save.pc = "scoring" /\ save'.pc = "idle") =>
        /\ nWrites' = nWrites + 1
        /\ lastWrite'.op = (IF save.account = NoAccount THEN "add" ELSE "update")
        /\ save.account # NoAccount => lastWrite'.id = save.account.id
        /\ lastWrite'.ok => ~showModal' /\ ~form'.open
        /\ ~lastWrite'.ok =>
             /\ error' # Null
             /\ store' = store
             /\ form.open => form'.open /\ form'.formData = form.formData ]_vars

\* C13: a delete request is issued only from the confirm dialog, which is
\* opened only from the editor of an existing account; it addresses the edited
\* account's document and leaves every other document as it was; a step that
\* opens or cancels the dialog issues no store request.
C13_DeleteNeedsConfirmation ==
  [][ /\ (nWrites' # nWrites /\ lastWrite'.op = "delete") =>
           /\ form.open /\ form.showDeleteConfirm
           /\ selectedAccount # NoAccount
           /\ lastWrite'.id = selectedAccount.id
           /\ \A d \in DOMAIN store[lastWrite'.uid] \ {lastWrite'.id} :
                /\ d \in DOMAIN store'[lastWrite'.uid]
                /\ store'[lastWrite'.uid][d] = store[lastWrite'.uid][d]
      /\ (form'.open /\ form'.showDeleteConfirm /\ ~(form.open /\ form.showDeleteConfirm)) =>
           /\ form.open /\ selectedAccount # NoAccount
           /\ UNCHANGED storeVars
      /\ (form.open /\ form.showDeleteConfirm /\ form'.open /\ ~form'.showDeleteConfirm) =>
           UNCHANGED storeVars ]_vars

\* C13 witness: the confirmed delete of account 1 has removed that document
\* and left the other one
C13_Witness ==
  /\ lastWrite.op = "delete" /\ lastWrite.ok /\ lastWrite.id = 1
  /\ DOMAIN store[lastWrite.uid] = {2}
  /\ ~showModal

\* C14: when the scoring call of a save returns no text and the stage saved
\* is neither Closed Won nor Closed Lost, the save passes dealScore 50 to its
\* store handler and the handler issues its request.
C14_NoReplyScores50 ==
  [][ \A ok \in BOOLEAN :
        ( /\ save.pc = "scoring" /\ save'.pc = "idle"
          /\ save.data.stage \notin {"Closed Won", "Closed Lost"}
          /\ handleSaveResume(Null, ok) )
          => /\ nWrites' = nWrites + 1
             /\ lastWrite'.arg.dealScore = 50
             /\ lastWrite'.fields.dealScore = 50
             /\ lastWrite'.ok = (ok /\ (save.account # NoAccount =>
                                          save.account.id \in DOMAIN store[save.uid])) ]_vars

\* C14 witness: the account stored with dealScore 85 in Proposal Sent was
\* saved, the scoring call returned nothing, and it is now stored with 50
C14_Witness ==
  /\ lastWrite.op = "update" /\ lastWrite.ok /\ lastWrite.id = 2
  /\ "dealScore" \in DOMAIN lastWrite.fields
  /\ lastWrite.arg.stage = "Proposal Sent"
  /\ lastWrite.fields.dealScore = 50
  /\ store[lastWrite.uid][2].dealScore = 50

\* C15: when the call of the email draft or of the agenda returns no text,
\* the form shows the fallback string of that feature, nothing is thrown or
\* logged by the handler, no error is set, and the buttons are enabled again.
C15_AssistFallback ==
  [][ /\ (form.open /\ form.drafting /\ handleDraftEmailResume(Null)) =>
           /\ form'.open /\ form'.emailDraft = EmailFallback
           /\ ~form'.loadingAI
           /\ console' = console /\ error' = error
      /\ (form.open /\ form.generating /\ handleGenerateAgendaResume(Null)) =>
           /\ form'.open /\ form'.agenda = AgendaFallback
           /\ ~form'.loadingAI
           /\ console' = console /\ error' = error ]_vars

\* C15 witness: an email draft failed, the form shows the fallback, and a
\* second draft has been requested
C15_Witness ==
  /\ form.open /\ form.emailDraft = EmailFallback
  /\ form.drafting /\ form.loadingAI

\* C16: when the scan returns a text that is not JSON, every field of the
\* form keeps its value, no message is shown (the error of the app, the
\* status line, the email and agenda panels are as they were) and the
\* SyntaxError is logged.
C16_MalformedScan ==
  [][ (form.open /\ form.scanning /\ handleScanBusinessCardResume(ProseCard)) =>
        /\ form'.open /\ form'.formData = form.formData
        /\ error' = error
        /\ form'.dictationStatus = form.dictationStatus
        /\ form'.emailDraft = form.emailDraft /\ form'.agenda = form.agenda
        /\ "Uncaught (in promise) SyntaxError" \in console' ]_vars

\* C16 witness: the scan of a card into the form of the stored account Acme
\* ended on a text that is not JSON: the error is logged, companyName is
\* still Acme
C16_Witness ==
  /\ form.open /\ ~form.scanning
  /\ "Uncaught (in promise) SyntaxError" \in console
  /\ form.formData.companyName = "Acme"
  /\ form.formData = FormDataOf(selectedAccount)
  /\ error = Null

\* C17: App renders exactly one of three views: the loading screen, the
\* credential form exactly when loading is over and no user is signed in, the
\* board exactly when loading is over and a user is signed in.
C17_ThreeRenderStates ==
  /\ View \in {"loading", "auth", "board"}
  /\ View = "auth" <=> (~isLoading /\ user = Null)
  /\ View = "board" <=> (~isLoading /\ user # Null)

\* C18: every store request that carries a stage carries one of the nine
\* funnel-stage names, and so does every stored account.
C18_StageIsFunnelStage ==
  /\ (lastWrite.op \in {"add", "update"} /\ "stage" \in DOMAIN lastWrite.fields)
       => lastWrite.fields.stage \in StageNames
  /\ \A u \in Users : \A d \in DOMAIN store[u] : store[u][d].stage \in StageNames

\* C19: in every partition the board holds, an account with a follow-up
\* date is preceded only by accounts with a date that is not later, so the
\* dates are in non-decreasing order and the accounts without one come last.
C19_PartitionsSorted ==
  \A s \in StageNames :
    \A i, j \in 1..Len(accounts[s]) :
      (i < j /\ accounts[s][j].doc.nextFollowUpDate # NoDate)
        => /\ accounts[s][i].doc.nextFollowUpDate # NoDate
           /\ accounts[s][i].doc.nextFollowUpDate <= accounts[s][j].doc.nextFollowUpDate

\* C19 witness: the editor moved the follow-up date of account 2 before
\* that of account 1, and the snapshot shows account 2 first
C19_Witness ==
  /\ Len(accounts["New Leads"]) >= 2
  /\ accounts["New Leads"][1].id = 2
  /\ accounts["New Leads"][1].doc.nextFollowUpDate = 2
  /\ accounts["New Leads"][2].id = 1
  /\ accounts["New Leads"][2].doc.nextFollowUpDate = 3
  /\ lastWrite.op = "update" /\ lastWrite.ok /\ lastWrite.id = 2

\* C20: the dealScore a form save passes to the store is an integer from 0
\* to 100, whatever text the scoring call returned.
C20_SavedScoreInRange ==
  (lastWrite.op \in {"add", "update"} /\ "dealScore" \in DOMAIN lastWrite.fields)
    => lastWrite.fields.dealScore \in 0..100

\* the state of a dictation target of form f: Listening while one of its
\* sessions has not ended, Processing while the onend handler of one awaits
\* the AI call, Idle without a session
TargetState(f, target) ==
  IF ~f.open THEN "Idle"
  ELSE IF \E s \in DOMAIN f.sessions :
            f.sessions[s].target = target /\ f.sessions[s].status # "processing"
  THEN "Listening"
  ELSE IF \E s \in DOMAIN f.sessions : f.sessions[s].target = target
  THEN "Processing"
  ELSE "Idle"

DictationTargets == { "fields", "notes" }

\* C21: each dictation target moves only from Idle to Listening, from
\* Listening to Idle (the session ended with an empty final transcript) or to
\* Processing, and from Processing to Idle; when the AI call of a target
\* returns, whatever it returned, the editor shows the target idle: the
\* status line is empty and the busy flag of the account-fields target is
\* off.
C21_DictationStateMachine ==
  [][ (form.open /\ form'.open) =>
        \A target \in DictationTargets :
          LET from == TargetState(form, target)
              to == TargetState(form', target)
          IN /\ from # to =>
                  << from, to >> \in { << "Idle", "Listening" >>, << "Listening", "Idle" >>,
                                       << "Listening", "Processing" >>,
                                       << "Processing", "Idle" >> }
             /\ (from = "Listening" /\ to = "Idle") =>
                  \A s \in DOMAIN form.sessions \ DOMAIN form'.sessions :
                    form.sessions[s].final = ""
             /\ (from = "Processing" /\ to = "Idle") =>
                  /\ form'.dictationStatus = ""
                  /\ target = "fields" => ~form'.loadingAI ]_vars

\* the sessions of a target the browser has been asked to start and has not
\* ended
ActiveSessions(target) ==
  { s \in DOMAIN form.sessions :
      /\ form.sessions[s].target = target
      /\ form.sessions[s].status \in {"starting", "started", "ending"} }

\* C22: each dictation target has at most one session that is starting or
\* started, and that session is the one the ref of the target holds, the one
\* the Stop button of the target stops.
C22_OneSessionPerTarget ==
  form.open =>
    /\ ActiveSessions("fields") \subseteq { form.recognitionRef }
    /\ ActiveSessions("notes") \subseteq { form.noteRecognitionRef }

\* C23: whenever none of the business-card scan, the email draft and the
\* agenda generation is awaiting its AI call, the busy flag loadingAI is off
\* and the status line is empty: a call that has returned, with valid text,
\* no text or malformed text, leaves the AI buttons enabled.
C23_BusyOnlyWhileCalling ==
  (form.open /\ ~form.scanning /\ ~form.drafting /\ ~form.generating)
    => (~form.loadingAI /\ form.dictationStatus = "")

\* C24: a form save issues its store request only while the editor it was
\* started from is still open: once the editor has been closed, a save that
\* was awaiting the AI score issues no create and no update.
C24_NoWriteAfterClose ==
  [][ ( /\ save.pc = "scoring" /\ save'.pc = "idle"
        /\ save.data.stage \notin {"Closed Won", "Closed Lost"}
        /\ nWrites' # nWrites /\ lastWrite'.op \in {"add", "update"} )
        => form.open ]_vars

\* the form fields an AI extraction result is merged into
MergedFields == { "companyName", "servicesNeeded", "value", "monthlyValue" }

\* this step ends a business-card scan or the AI call of an account-fields
\* dictation of the open editor
MergeStep ==
  /\ form.open /\ form'.open
  /\ \/ form.scanning /\ ~form'.scanning
     \/ \E s \in DOMAIN form.sessions \ DOMAIN form'.sessions :
          form.sessions[s].target = "fields" /\ form.sessions[s].status = "processing"

\* C25: the merge of an AI extraction result (business-card scan, dictation
\* of account fields) never replaces a non-empty form field by null or by the
\* empty string.
C25_MergeKeepsFilledFields ==
  [][ MergeStep =>
        \A k \in MergedFields :
          form.formData[k] # "" => form'.formData[k] \notin { "", Null } ]_vars

\* C26: whenever the board is rendered, every account it holds is a document
\* of the collection of the signed-in user, with the content stored there.
C26_BoardShowsOwnAccounts ==
  View = "board" =>
    \A acc \in BoardAccounts :
      acc.id \in DOMAIN store[user] /\ store[user][acc.id] = acc.doc

\* C27: no drag-drop and no form save moves a stored account into Closed
\* Lost, or creates one there, without a non-empty lostReason.
C27_ClosedLostHasReason ==
  [][ \A u \in Users : \A d \in DOMAIN store'[u] :
        ( /\ store'[u][d].stage = "Closed Lost"
          /\ (d \notin DOMAIN store[u] \/ store[u][d].stage # "Closed Lost") )
          => store'[u][d].lostReason # "" ]_vars

====
